---- MODULE Spec2Model ----
(***************************************************************************)
(* Model of frame_reductor: the C37.118 frame intake (listen and file      *)
(* mode), the configuration slots, the multi-PMU aggregator, the rate      *)
(* reducer and the re-serializer.                                          *)
(***************************************************************************)
EXTENDS Integers, Sequences, FiniteSets, TLC

(***************************************************************************)
(* float64 arithmetic of the rate reducer.                                 *)
(*                                                                         *)
(* A non-negative float64 below 2^IntBits whose lowest set bit weighs at   *)
(* least 2^-FracBits is written as the sequence of its binary digits, most *)
(* significant first: digit i weighs 2^(IntBits - i).  Every operation     *)
(* computes the exact result and rounds it to Precision significant bits,  *)
(* ties to even, as IEEE 754 does.                                         *)
(***************************************************************************)
Precision == 53
IntBits == 7
FracBits == 60
Width == IntBits + FracBits

\* the digits d[1..Width] as an explicit sequence
Digits(d) == SubSeq(d, 1, Width)

Zero64 == Digits([i \in 1..Width |-> 0])

\* index of the most significant set digit of b, 0 when b is zero
FirstOne(b) ==
  IF \E i \in 1..Len(b) : b[i] = 1
    THEN CHOOSE i \in 1..Len(b) : b[i] = 1 /\ \A j \in 1..(i-1) : b[j] = 0
    ELSE 0

\* b plus one unit in digit k (digits after k are already cleared)
IncAt(b, k) ==
  IF \E j \in 1..k : b[j] = 0
    THEN LET z == CHOOSE j \in 1..k : b[j] = 0 /\ \A m \in (j+1)..k : b[m] = 1
         IN  Digits([i \in 1..Width |-> IF i < z THEN b[i] ELSE IF i = z THEN 1 ELSE 0])
    ELSE Zero64

\* round-to-nearest-even of the exact value b (Width or more digits; sticky says
\* that the exact value has further non-zero digits beyond b)
Round64(b, sticky) ==
  LET p    == FirstOne(b)
      last == p + Precision - 1
  IN  IF p = 0 THEN Zero64
      ELSE IF last >= Len(b) THEN Digits(b)
      ELSE LET kept  == Digits([i \in 1..Width |-> IF i <= last THEN b[i] ELSE 0])
               guard == b[last + 1]
               rest  == sticky \/ \E i \in (last+2)..Len(b) : b[i] = 1
               up    == guard = 1 /\ (rest \/ b[last] = 1)
           IN  IF up THEN IncAt(kept, last) ELSE kept

\* float64(n) for an integer 0 <= n < 2^IntBits
FromInt(n) ==
  Digits([i \in 1..Width |-> IF i <= IntBits THEN (n \div (2^(IntBits - i))) % 2 ELSE 0])

\* 2^k modulo m
RECURSIVE PowMod(_, _)
PowMod(k, m) ==
  IF k = 0 THEN 1 % m
  ELSE LET h == PowMod(k \div 2, m)
       IN  (h * h * (IF k % 2 = 1 THEN 2 ELSE 1)) % m

\* float64 division a / b of two integers held as float64 (0 <= a, 0 < b): the
\* k-th fractional digit of the quotient is that of r * 2^k / b
Div64(a, b) ==
  LET q == a \div b
      r == a % b
      digits == SubSeq([i \in 1..(Width + 1) |->
                          IF i <= IntBits THEN (q \div (2^(IntBits - i))) % 2
                          ELSE ((r * PowMod(i - IntBits, 2 * b)) % (2 * b)) \div b],
                       1, Width + 1)
  IN  Round64(digits, (r * PowMod(FracBits + 1, b)) % b # 0)

\* the exact sum of the digits lo..hi of x and y and the carry cin into digit
\* hi: the carry out of digit lo, followed by the digits lo..hi of the sum
RECURSIVE AddRange(_, _, _, _, _)
AddRange(x, y, lo, hi, cin) ==
  IF lo = hi THEN <<(x[lo] + y[lo] + cin) \div 2, (x[lo] + y[lo] + cin) % 2>>
  ELSE LET mid   == (lo + hi) \div 2
           right == AddRange(x, y, mid + 1, hi, cin)
       IN  IF right[1] = 0
             THEN AddRange(x, y, lo, mid, 0) \o Tail(right)
             ELSE AddRange(x, y, lo, mid, 1) \o Tail(right)

\* float64 addition x + y (the sum stays below 2^IntBits)
Add64(x, y) == Round64(Tail(AddRange(x, y, 1, Width, 0)), FALSE)

\* x >= 1.0
Ge1(x) == \E i \in 1..IntBits : x[i] = 1

\* float64 subtraction x - 1.0, for x >= 1.0
Sub1(x) ==
  LET z == CHOOSE j \in 1..IntBits : x[j] = 1 /\ \A m \in (j+1)..IntBits : x[m] = 0
  IN  Round64(Digits([i \in 1..Width |->
                        IF i < z \/ i > IntBits THEN x[i] ELSE IF i = z THEN 0 ELSE 1]),
              FALSE)

(***************************************************************************)
(* Bytes.  A frame is a sequence of bytes (0..255), big-endian fields.     *)
(***************************************************************************)
\* binary.Write of a uint16 / uint32, big-endian
U16(n) == <<(n \div 256) % 256, n % 256>>
U32(n) == <<(n \div 16777216) % 256, (n \div 65536) % 256, (n \div 256) % 256, n % 256>>

\* binary.BigEndian.Uint16 / Uint32 of the bytes at offset off (0-based)
BE16(b, off) == b[off + 1] * 256 + b[off + 2]
BE32(b, off) == ((b[off + 1] * 256 + b[off + 2]) * 256 + b[off + 3]) * 256 + b[off + 4]

\* b[from:to] of Go: the bytes at offsets from..to-1
Slice(b, from, to) == SubSeq(b, from + 1, to)

\* n zero bytes
Zeros(n) == SubSeq([i \in 1..n |-> 0], 1, n)

\* bitwise exclusive or of two n-bit numbers
RECURSIVE Xor(_, _, _)
Xor(a, b, n) ==
  IF n = 0 THEN 0 ELSE ((a + b) % 2) + 2 * Xor(a \div 2, b \div 2, n - 1)

\* exclusive or of two 4-bit numbers, tabulated: XorTable[16 * a + b + 1]
XorTable == SubSeq([i \in 1..256 |-> Xor((i - 1) \div 16, (i - 1) % 16, 4)], 1, 256)

\* exclusive or of two bytes and of two 16-bit numbers
Xor8(a, b) ==
  16 * XorTable[16 * (a \div 16) + (b \div 16) + 1] + XorTable[16 * (a % 16) + (b % 16) + 1]
Xor16(a, b) == 256 * Xor8(a \div 256, b \div 256) + Xor8(a % 256, b % 256)

\* one shift step of the CRC register: shift left, and xor the polynomial 0x1021
\* in when a set bit falls out
ShiftCRC(crc) ==
  LET s == (crc * 2) % 65536
  IN  IF crc >= 32768 THEN Xor(s, 4129, 16) ELSE s

\* the CRC register that held byte * 256 after eight shift steps, tabulated:
\* CRCTable[byte + 1]
CRCTable ==
  SubSeq([i \in 1..256 |->
            ShiftCRC(ShiftCRC(ShiftCRC(ShiftCRC(ShiftCRC(ShiftCRC(ShiftCRC(ShiftCRC(
              (i - 1) * 256))))))))],
         1, 256)

\* the CRC register after one more byte
UpdateCRC(crc, byte) ==
  Xor16((crc % 256) * 256, CRCTable[Xor8(crc \div 256, byte) + 1])

\* the CRC register crc after the bytes lo..hi of data
RECURSIVE CRCOver(_, _, _, _)
CRCOver(crc, data, lo, hi) ==
  IF lo > hi THEN crc
  ELSE LET c == CRCOver(crc, data, lo, hi - 1)
       IN  IF c >= 0 THEN UpdateCRC(c, data[hi]) ELSE 0

\* CRC-CCITT (polynomial 0x1021, initial value 0xFFFF, no reflection, no final
\* xor) of the first n bytes of data, folded in runs of 16 bytes
RECURSIVE CRCUpTo(_, _)
CRCUpTo(data, n) ==
  IF n = 0 THEN 65535
  ELSE LET done == ((n - 1) \div 16) * 16
           c    == CRCUpTo(data, done)
       IN  IF c >= 0 THEN CRCOver(c, data, done + 1, n) ELSE 0

CalculateCRC(data) == CRCUpTo(data, Len(data))

(***************************************************************************)
(* The common header and the Configuration-2 decoder.                      *)
(***************************************************************************)
\* a nil pointer to a frame, and the nil slice a failed read returns
Nil == [nil |-> TRUE]
Failed == <<-1>>

\* header.DataFrameType, bits 6-4 of SYNC
DataFrame == 0
ConfigurationFrame2 == 3
ConfigurationFrame3 == 5

\* DecodeC37Header: the 14 bytes SYNC, FRAMESIZE, IDCODE, SOC, FRACSEC
DecodeC37Header(data) ==
  [Sync          |-> BE16(data, 0),
   FrameSize     |-> BE16(data, 2),
   IDCode        |-> BE16(data, 4),
   Soc           |-> BE32(data, 6),
   FracSec       |-> BE32(data, 10),
   DataFrameType |-> (data[2] \div 16) % 8]

\* strings.TrimRight(string(b), "\x00")
TrimRight(b) ==
  LET used == {i \in 1..Len(b) : b[i] # 0}
  IN  IF used = {} THEN <<>>
      ELSE SubSeq(b, 1, CHOOSE i \in used : \A j \in used : j <= i)

\* DecodeFormatBits
DecodeFormatBits(format) ==
  [FREQ_DFREQ |-> (format \div 8) % 2,
   AnalogFmt  |-> (format \div 4) % 2,
   PhasorFmt  |-> (format \div 2) % 2,
   PhasorType |-> format % 2]

\* DecodeTimeBase
DecodeTimeBase(timeBase) ==
  [Reserved |-> timeBase \div 32768, TimeMultiplier |-> timeBase % 32768]

\* DecodeFreqNominal
DecodeFreqNominal(rawFNom) ==
  [Is50Hz |-> rawFNom % 2 = 1, Is60Hz |-> rawFNom % 2 = 0, RawValue |-> rawFNom]

\* DecodeChannelNames: count names of 16 bytes each, starting at offset off
DecodeChannelNames(data, off, count) ==
  SubSeq([i \in 1..count |-> TrimRight(Slice(data, off + 16 * (i - 1), off + 16 * i))],
         1, count)

\* the channel type DecodePhasorUnits gives a PHUNIT type byte
PhasorChannelType(byte) == IF byte = 0 THEN 0 ELSE 1

\* DecodePhasorUnits accepts the type bytes 0 (voltage), 1 and 128 (current)
KnownPhasorType(byte) == byte \in {0, 1, 128}

\* DecodePhasorUnits.  ConversionFactor is float64(count) * 1e-5 of the 24-bit
\* count; it is held as that count, which uint32(ConversionFactor * 1e5) gives
\* back for every 24-bit count.
DecodePhasorUnits(data, off, phnmr) ==
  SubSeq([i \in 1..phnmr |->
            [ChannelType      |-> PhasorChannelType(data[off + 4 * (i - 1) + 1]),
             ConversionFactor |-> (data[off + 4 * (i - 1) + 2] * 256
                                     + data[off + 4 * (i - 1) + 3]) * 256
                                     + data[off + 4 * (i - 1) + 4]]],
         1, phnmr)

\* the AnalogType DecodeAnalogUnits gives an ANUNIT type byte
AnalogChannelType(byte) ==
  IF byte = 0 THEN "SinglePointOnWave"
  ELSE IF byte = 1 THEN "RMS"
  ELSE IF byte = 2 THEN "Peak"
  ELSE IF byte >= 5 /\ byte <= 64 THEN "Reserved"
  ELSE IF byte >= 65 THEN "UserDefined"
  ELSE "Unknown"

\* DecodeAnalogUnits: the scaling factor is the signed 24-bit number
DecodeAnalogUnits(data, off, annmr) ==
  SubSeq([i \in 1..annmr |->
            LET raw == (data[off + 4 * (i - 1) + 2] * 256
                          + data[off + 4 * (i - 1) + 3]) * 256
                          + data[off + 4 * (i - 1) + 4]
            IN  [ChannelType   |-> AnalogChannelType(data[off + 4 * (i - 1) + 1]),
                 ScalingFactor |-> IF raw >= 8388608 THEN raw - 16777216 ELSE raw]],
         1, annmr)

\* DecodeDigitalUnits
DecodeDigitalUnits(data, off, dgnmr) ==
  SubSeq([i \in 1..dgnmr |->
            [NormalStatusMask |-> BE16(data, off + 4 * (i - 1)),
             ValidInputsMask  |-> BE16(data, off + 4 * (i - 1) + 2)]],
         1, dgnmr)

\* an int16 read big-endian
Int16(n) == IF n >= 32768 THEN n - 65536 ELSE n

\* number of body bytes DecodeConfigurationFrame2 reads up to and including
\* DATA_RATE, for the counts found at offsets 26, 28 and 30
BodyThroughDataRate(data) ==
  LET phnmr == BE16(data, 26)
      annmr == BE16(data, 28)
      dgnmr == BE16(data, 30)
  IN  32 + 16 * (phnmr + annmr + 16 * dgnmr) + 4 * (phnmr + annmr + dgnmr) + 6

\* every PHUNIT type byte of the body is one DecodePhasorUnits accepts
PhasorTypesKnown(data) ==
  LET phnmr == BE16(data, 26)
      off   == 32 + 16 * (phnmr + BE16(data, 28) + 16 * BE16(data, 30))
  IN  \A i \in 1..phnmr : KnownPhasorType(data[off + 4 * (i - 1) + 1])

\* DecodeConfigurationFrame2 reaches the assignment of InputDataRate: every read
\* up to DATA_RATE found its bytes
ReadsDataRate(data) ==
  /\ Len(data) >= 32
  /\ Len(data) >= BodyThroughDataRate(data)
  /\ PhasorTypesKnown(data)

\* the value DecodeConfigurationFrame2 stores into InputDataRate
DecodedDataRate(data) == Int16(BE16(data, BodyThroughDataRate(data) - 2))

\* DecodeConfigurationFrame2(data, header): the decoded frame, or Nil when a
\* read fails (data is the frame without its 14 header bytes)
DecodeConfigurationFrame2(data, header) ==
  IF ~ReadsDataRate(data) \/ Len(data) < BodyThroughDataRate(data) + 2 THEN Nil
  ELSE
    LET phnmr == BE16(data, 26)
        annmr == BE16(data, 28)
        dgnmr == BE16(data, 30)
        names == phnmr + annmr + 16 * dgnmr
        units == 32 + 16 * names
        tail  == units + 4 * (phnmr + annmr + dgnmr)
    IN  [C37Header    |-> header,
         TimeBase     |-> DecodeTimeBase(BE32(data, 0)),
         NumPMU       |-> BE16(data, 4),
         StationName  |-> TrimRight(Slice(data, 6, 22)),
         IDCode2      |-> BE16(data, 22),
         Format       |-> DecodeFormatBits(BE16(data, 24)),
         NumPhasors   |-> phnmr,
         NumAnalogs   |-> annmr,
         NumDigitals  |-> dgnmr,
         ChannelNames |-> DecodeChannelNames(data, 32, names),
         PhasorUnits  |-> DecodePhasorUnits(data, units, phnmr),
         AnalogUnits  |-> DecodeAnalogUnits(data, units + 4 * phnmr, annmr),
         DigitalUnits |-> DecodeDigitalUnits(data, units + 4 * (phnmr + annmr), dgnmr),
         FNom         |-> DecodeFreqNominal(BE16(data, tail)),
         ConfigCount  |-> BE16(data, tail + 2),
         DataRate     |-> Int16(BE16(data, tail + 4)),
         CRC          |-> BE16(data, tail + 6)]

(***************************************************************************)
(* The Configuration-3 decoder.                                            *)
(***************************************************************************)
\* DecodeCHNAMForCFG3: count names, each a length byte and that many bytes,
\* from offset off; off is -1 when the bytes run out
RECURSIVE DecodeCHNAMForCFG3(_, _, _)
DecodeCHNAMForCFG3(data, off, count) ==
  IF count = 0 THEN [names |-> <<>>, off |-> off]
  ELSE IF off >= Len(data) \/ off + 1 + data[off + 1] > Len(data)
    THEN [names |-> <<>>, off |-> -1]
  ELSE LET nameLen == data[off + 1]
           rest    == DecodeCHNAMForCFG3(data, off + 1 + nameLen, count - 1)
       IN  [names |-> <<Slice(data, off + 1, off + 1 + nameLen)>> \o rest.names,
            off   |-> rest.off]

\* the service classes DecodeConfigurationFrame3 accepts: 'M' and 'P'
ServiceClasses == {77, 80}

\* DecodeConfigurationFrame3(data, header): the decoded frame, or Nil when a
\* read fails or the service class is unknown (data is the frame without its
\* 14 header bytes)
DecodeConfigurationFrame3(data, header) ==
  IF Len(data) < 9 \/ Len(data) < 9 + data[9] + 26 THEN Nil
  ELSE
    LET station == 9 + data[9]
        phnmr   == BE16(data, station + 20)
        annmr   == BE16(data, station + 22)
        dgnmr   == BE16(data, station + 24)
        chnam   == DecodeCHNAMForCFG3(data, station + 26, phnmr + annmr + 16 * dgnmr)
        scales  == chnam.off + 12 * phnmr + 8 * annmr + 4 * dgnmr
    IN  IF chnam.off = -1 \/ Len(data) < scales + 27 THEN Nil
        ELSE IF data[scales + 13] \notin ServiceClasses THEN Nil
        ELSE [C37Header    |-> header,
              ContIdx      |-> BE16(data, 0),
              TimeBase     |-> DecodeTimeBase(BE32(data, 2)),
              NumPMU       |-> BE16(data, 6),
              StationName  |-> Slice(data, 9, station),
              IDCode2      |-> BE16(data, station),
              Format       |-> DecodeFormatBits(BE16(data, station + 18)),
              NumPhasors   |-> phnmr,
              NumAnalogs   |-> annmr,
              NumDigitals  |-> dgnmr,
              ChannelNames |-> chnam.names,
              ServiceClass |-> data[scales + 13],
              Window       |-> BE32(data, scales + 13),
              GroupDelay   |-> BE32(data, scales + 17),
              FNom         |-> DecodeFreqNominal(BE16(data, scales + 21)),
              DataRate     |-> Int16(BE16(data, scales + 23)),
              ConfigCount  |-> BE16(data, scales + 25)]

(***************************************************************************)
(* The data frame decoder.                                                 *)
(***************************************************************************)
\* number of body bytes DecodeDataFrame reads under the configuration cfg:
\* STAT, the phasors, FREQ, DFREQ, the analogs, the digital words and CHK
DataBodyLength(cfg) ==
  2 + Len(cfg.PhasorUnits) * (IF cfg.Format.PhasorFmt = 0 THEN 4 ELSE 8)
    + 2 * (IF cfg.Format.FREQ_DFREQ = 0 THEN 2 ELSE 4)
    + cfg.NumAnalogs * (IF cfg.Format.AnalogFmt = 0 THEN 2 ELSE 4)
    + cfg.NumDigitals * 2
    + 2

\* DecodeDataFrame(data, header) under model.CfgFrame2 = cfg: the decoded frame,
\* or Nil when a read runs out of bytes
DecodeDataFrame(data, header, cfg) ==
  IF Len(data) < DataBodyLength(cfg) THEN Nil
  ELSE [C37Header |-> header,
        Stat      |-> BE16(data, 0),
        CRC       |-> BE16(data, DataBodyLength(cfg) - 2)]

(***************************************************************************)
(* The frames the PMUs put on the wire.                                    *)
(***************************************************************************)
\* a name in a 16-byte field, padded with NUL
PadNul(name) == SubSeq(name \o Zeros(16), 1, 16)

RECURSIVE Concat(_)
Concat(seqs) == IF seqs = <<>> THEN <<>> ELSE Head(seqs) \o Concat(Tail(seqs))

\* the frame with FRAMESIZE at bytes 2..3 and CHK at the end filled in
Sealed(body) ==
  LET sized == SubSeq(body, 1, 2) \o U16(Len(body) + 2) \o SubSeq(body, 5, Len(body))
  IN  sized \o U16(CalculateCRC(sized))

\* SYNC of a version-1 frame of the given type
SyncOf(type) == <<170, type * 16 + 1>>

\* a Configuration-2 frame of one PMU: 16-bit polar format, phasor channels
\* phasors (voltages, 1e-5 units per bit given by factor), analog channels
\* analogs (RMS), no digital word, 50 Hz
WireConfig2(id, soc, frac, station, phasors, analogs, factor, cfgcnt, rate) ==
  Sealed(SyncOf(ConfigurationFrame2) \o U16(0) \o U16(id) \o U32(soc) \o U32(frac)
         \o U32(1000000) \o U16(1) \o PadNul(station) \o U16(id) \o U16(0)
         \o U16(Len(phasors)) \o U16(Len(analogs)) \o U16(0)
         \o Concat([i \in 1..Len(phasors) |-> PadNul(phasors[i])])
         \o Concat([i \in 1..Len(analogs) |-> PadNul(analogs[i])])
         \o Concat([i \in 1..Len(phasors) |-> <<0>> \o SubSeq(U32(factor), 2, 4)])
         \o Concat([i \in 1..Len(analogs) |-> <<1, 0, 0, 1>>])
         \o U16(1) \o U16(cfgcnt) \o U16(rate))

\* a Data frame with phnmr 16-bit phasors and annmr 16-bit analogs
WireData(id, soc, frac, phnmr, annmr) ==
  Sealed(SyncOf(DataFrame) \o U16(0) \o U16(id) \o U32(soc) \o U32(frac)
         \o U16(0)
         \o Concat([i \in 1..phnmr |-> U16(100 * i) \o U16(0)])
         \o U16(0) \o U16(0)
         \o Concat([i \in 1..annmr |-> U16(i)]))

\* a name with its length byte
Counted(name) == <<Len(name)>> \o name

\* a Configuration-3 frame of one PMU: 16-bit polar format, phasor channels
\* phasors with unit scale, no analog channel, no digital word, service class
\* M, 50 Hz
WireConfig3(id, soc, frac, station, phasors, cfgcnt, rate) ==
  Sealed(SyncOf(ConfigurationFrame3) \o U16(0) \o U16(id) \o U32(soc) \o U32(frac)
         \o U16(0) \o U32(1000000) \o U16(1) \o Counted(station) \o U16(id)
         \o Zeros(16) \o U16(0)
         \o U16(Len(phasors)) \o U16(0) \o U16(0)
         \o Concat([i \in 1..Len(phasors) |-> Counted(phasors[i])])
         \o Concat([i \in 1..Len(phasors) |-> U16(0) \o <<1, 0>> \o U32(1065353216) \o U32(0)])
         \o Zeros(12) \o <<77>> \o U32(0) \o U32(0)
         \o U16(1) \o U16(rate) \o U16(cfgcnt))

(***************************************************************************)
(* The aggregator.                                                         *)
(***************************************************************************)
\* number of PMU configurations to collect
requiredPMUs == 3

\* analogTypeMap
analogTypeMap(type) ==
  CASE type = "SinglePointOnWave" -> 0
    [] type = "RMS"               -> 1
    [] type = "Peak"              -> 2
    [] type = "Reserved"          -> 5
    [] type = "UserDefined"       -> 65
    [] OTHER                      -> 255

\* FormatBits.ToUint16
FormatToUint16(format) ==
  format.FREQ_DFREQ * 8 + format.AnalogFmt * 4 + format.PhasorFmt * 2 + format.PhasorType

\* FNom.ToUint16
FNomToUint16(fnom) == fnom.RawValue

\* the block BuildAggregatedConfigFrame writes for one member
PMUBlock(pmu) ==
  PadNul(pmu.StationName) \o U16(pmu.IDCode2) \o U16(FormatToUint16(pmu.Format))
    \o U16(pmu.NumPhasors) \o U16(pmu.NumAnalogs) \o U16(pmu.NumDigitals)
    \o Concat([i \in 1..Len(pmu.ChannelNames) |-> PadNul(pmu.ChannelNames[i])])
    \o Concat([i \in 1..Len(pmu.PhasorUnits) |->
                 U16(pmu.PhasorUnits[i].ChannelType)
                   \o U16(pmu.PhasorUnits[i].ConversionFactor % 65536)])
    \o Concat([i \in 1..Len(pmu.AnalogUnits) |->
                 U16(analogTypeMap(pmu.AnalogUnits[i].ChannelType))
                   \o U16(pmu.AnalogUnits[i].ScalingFactor % 65536)])
    \o Concat([i \in 1..Len(pmu.DigitalUnits) |->
                 U16(pmu.DigitalUnits[i].NormalStatusMask)
                   \o U16(pmu.DigitalUnits[i].ValidInputsMask)])
    \o U16(FNomToUint16(pmu.FNom)) \o U16(pmu.ConfigCount)

\* sum of the count named field over the members ids of the buffer, in uint16
RECURSIVE SumOver(_, _, _)
SumOver(buffer, ids, field) ==
  IF ids = {} THEN 0
  ELSE LET id == CHOOSE x \in ids : TRUE
       IN  (buffer[id][field] + SumOver(buffer, ids \ {id}, field)) % 65536

\* a count that takes the first member only
CountFirstOnly(buffer, firstKey, field) == buffer[firstKey][field]
\* the counts of the aggregate: aggFrame.Num... += cfg.Num... over the buffer
CountAll(buffer, firstKey, field) == SumOver(buffer, DOMAIN buffer, field)

\* the aggregate's IDCode
AggregateID(first) == 999

\* the structure BuildAggregatedConfigFrame returns for the buffer, when
\* findFirstKey gives firstKey
AggregatedFrame(buffer, firstKey) ==
  LET first == buffer[firstKey]
  IN  [C37Header    |-> [first.C37Header EXCEPT !.IDCode = AggregateID(first)],
       TimeBase     |-> first.TimeBase,
       NumPMU       |-> Cardinality(DOMAIN buffer) % 65536,
       StationName  |-> <<>>,
       IDCode2      |-> 0,
       Format       |-> DecodeFormatBits(0),
       NumPhasors   |-> CountAll(buffer, firstKey, "NumPhasors"),
       NumAnalogs   |-> CountAll(buffer, firstKey, "NumAnalogs"),
       NumDigitals  |-> CountAll(buffer, firstKey, "NumDigitals"),
       ChannelNames |-> <<>>,
       PhasorUnits  |-> <<>>,
       AnalogUnits  |-> <<>>,
       DigitalUnits |-> <<>>,
       FNom         |-> first.FNom,
       ConfigCount  |-> first.ConfigCount,
       DataRate     |-> first.DataRate,
       CRC          |-> 0]

\* the frame size patched in at bytes 2..3 and the CRC appended
AggregateSealed(body) ==
  LET sized == SubSeq(body, 1, 2) \o U16((Len(body) + 2) % 65536)
                 \o SubSeq(body, 5, Len(body))
  IN  sized \o U16(CalculateCRC(sized))

\* the bytes BuildAggregatedConfigFrame returns for the buffer, when
\* findFirstKey gives firstKey and the range over the map visits the keys in
\* the given order
AggregatedBytes(buffer, firstKey, order) ==
  LET agg == AggregatedFrame(buffer, firstKey)
  IN  AggregateSealed(
        U16(agg.C37Header.Sync) \o U16(0) \o U16(agg.C37Header.IDCode)
          \o U32(agg.C37Header.Soc) \o U32(agg.C37Header.FracSec)
          \o U32(agg.TimeBase.TimeMultiplier % 32768)
          \o U16(agg.NumPMU)
          \o Concat([i \in 1..Len(order) |-> PMUBlock(buffer[order[i]])])
          \o U16(agg.DataRate % 65536))

(***************************************************************************)
(* The configuration re-serializer.                                        *)
(***************************************************************************)
\* model.FramesCount, which nothing assigns
FramesCount == 0

\* padName(name, 16): cut to 16 bytes or padded with spaces
padName(name) == SubSeq(name \o [i \in 1..16 |-> 32], 1, 16)

\* EncodeFormatBits
EncodeFormatBits(format) ==
  format.FREQ_DFREQ * 8 + format.AnalogFmt * 4 + format.PhasorFmt * 2 + format.PhasorType

\* EncodeFNom
EncodeFNom(fnom) == IF fnom.Is50Hz THEN 1 ELSE 0

\* the channel name ConvertConfigurationFrame leaves: "U_SEQ+"
SeqPlusName == <<85, 95, 83, 69, 81, 43>>

\* calculateNewFrameSize of a frame with one channel name and one phasor unit
calculateNewFrameSize == (18 + 2 + 2 + 16 + 2 + 2 + 2 + 2 + 2 + 16 + 4 + 2 + 2 + 2 + 2) % 65536

\* what ConvertConfigurationFrame writes after DATA_RATE: frame.CRC, the CHK of
\* the frame as it was received, and five zero bytes
ConvertedTail(frame, body) == U16(frame.CRC) \o Zeros(5)

\* the frame ConvertConfigurationFrame returns for a frame with a phasor unit
ConvertedConfigurationFrame(frame) ==
  [frame EXCEPT !.NumPhasors   = 1,
                !.NumAnalogs   = 0,
                !.NumDigitals  = 0,
                !.ChannelNames = <<SeqPlusName>>,
                !.PhasorUnits  = <<frame.PhasorUnits[1]>>,
                !.AnalogUnits  = <<>>,
                !.DigitalUnits = <<>>,
                !.DataRate     = Int16(FramesCount % 65536)]

\* the bytes ConvertConfigurationFrame returns for a frame with a phasor unit
ConvertedConfigurationBytes(frame) ==
  LET body == U16(frame.C37Header.Sync) \o U16(calculateNewFrameSize)
                \o U16(frame.C37Header.IDCode) \o U32(frame.C37Header.Soc)
                \o U32(frame.C37Header.FracSec)
                \o U32(frame.TimeBase.TimeMultiplier) \o U16(frame.NumPMU)
                \o padName(frame.StationName) \o U16(frame.IDCode2)
                \o U16(EncodeFormatBits(frame.Format))
                \o U16(1) \o U16(0) \o U16(0)
                \o padName(SeqPlusName)
                \o <<frame.PhasorUnits[1].ChannelType % 256>>
                \o SubSeq(U32(frame.PhasorUnits[1].ConversionFactor), 2, 4)
                \o U16(EncodeFNom(frame.FNom)) \o U16(frame.ConfigCount)
                \o U16(FramesCount % 65536)
      full == body \o ConvertedTail(frame, body)
  IN  SubSeq(full, 1, 2) \o <<(Len(full) \div 256) % 256, Len(full) % 256>>
        \o SubSeq(full, 5, Len(full))

\* strings.Contains(name, sub)
Contains(name, sub) ==
  \E i \in 1..(Len(name) - Len(sub) + 1) : SubSeq(name, i, i + Len(sub) - 1) = sub

\* the second name EncodePhasors looks for: "zgodna U"
ZgodnaUName == <<122, 103, 111, 100, 110, 97, 32, 85>>

\* the names DecodePhasors gives the phasors of a data frame decoded under cfg:
\* one per phasor unit, taken from the head of the channel names
PhasorNames(cfg) == SubSeq(cfg.ChannelNames, 1, Len(cfg.PhasorUnits))

\* EncodePhasors finds a phasor to encode among those decoded under cfg
SelectsPhasor(cfg) ==
  \E i \in 1..Len(PhasorNames(cfg)) :
    \/ Contains(PhasorNames(cfg)[i], SeqPlusName)
    \/ Contains(PhasorNames(cfg)[i], ZgodnaUName)

\* length of a data frame with one phasor, no analog value and no digital
\* word in the format of cfg: the header, STAT, the phasor, FREQ, DFREQ, CHK
ProjectedDataLength(cfg) ==
  14 + 2 + (IF cfg.Format.PhasorFmt = 0 THEN 4 ELSE 8)
     + 2 * (IF cfg.Format.FREQ_DFREQ = 0 THEN 2 ELSE 4) + 2

\* frameData[2], frameData[3] = frameSize: the write through the caller's slice
PatchFrameSize(frameData, frameSize) ==
  SubSeq(frameData, 1, 2) \o <<(frameSize \div 256) % 256, frameSize % 256>>
    \o SubSeq(frameData, 5, Len(frameData))

(***************************************************************************)
(* Program state.                                                          *)
(***************************************************************************)
VARIABLES
  pc,              \* where the intake is: "listening", "file", "returned",
                   \* "blocked" (in configMutex.Lock), "panicked"; "reducing",
                   \* "aggregating", "serving" and "dialing" for the reducer,
                   \* the aggregator, the TCP server and the TCP client on
                   \* their own
  accumulator,     \* handler.accumulator, a float64
  InputDataRate,   \* model.InputDataRate, the DATA_RATE of the last decoded Config-2
  OutputDataRate,  \* model.OutputDataRate, the -frames flag
  CfgFrame2,       \* model.CfgFrame2
  CfgFrame3,       \* model.CfgFrame3
  frameBuffer,     \* handler.frameBuffer: "soc:frac" -> the frames with that time
  configBuffer,    \* handler.configBuffer: IDCode -> Config-2
  configMutex,     \* handler.configMutex is held
  sent,            \* the byte slices handed to sendFrame, in call order
  converted,       \* the byte slices ConvertConfigurationFrame returned
  aggregated,      \* what the calls of BuildAggregatedConfigFrame returned
  nFrames,         \* history: number of calls of ProcessDataFrame
  emitted,         \* history: the calls (1..nFrames) whose frame went to sendFrame
  inserted,        \* history: the keys of configBuffer in the order of first insertion
  cached,          \* history: the IDCodes whose configuration was stored in a slot
  last,            \* history: what the last intake iteration did with its frame
  steps,           \* history: number of intake iterations
  received,        \* history: the datagram the last call of ReadUDPFrame read
  frameChan,       \* the unbuffered channel: <<n>> while sendFrame waits to hand
                   \* over the n-th frame, else <<>>
  offered,         \* number of frames sendFrame was called with
  handed,          \* history: the frames received from frameChan, in order
  conns,           \* the TCP connections: state, the frame its goroutine holds,
                   \* the frames written, whether writes fail, failed writes
  dialer,          \* where StartTCPClient is: "dial", "sleep", "connected"
  reachable,       \* the server StartTCPClient dials accepts connections
  file,            \* the lines written to the output file of listen mode
  arg,             \* the argument of a conversion applied on its own
  result,          \* what the conversion returned for arg
  main,            \* where main is: "spawning", "returned"
  listeners,       \* the listener tasks main started, by port
  clock,           \* seconds since main started
  period           \* the -time flag

rateVars == <<accumulator, nFrames, emitted>>
slotVars == <<InputDataRate, CfgFrame2, CfgFrame3, cached>>
aggVars  == <<configBuffer, configMutex, inserted, aggregated>>
netVars  == <<frameChan, offered, handed, conns, dialer, reachable>>
codecVars == <<arg, result>>
taskVars == <<main, listeners, clock, period>>
vars == <<pc, OutputDataRate, frameBuffer, sent, converted, last, steps,
          rateVars, slotVars, aggVars, received, netVars, file, codecVars, taskVars>>

\* the values the -frames flag accepts
validFrames == {1, 2, 4, 5, 10, 20, 25, 40, 50}

(***************************************************************************)
(* The rate reducer.                                                       *)
(***************************************************************************)
\* ratio := outRate / inRate
Ratio(outRate, inRate) == Div64(outRate, inRate)

\* a comparison with > in place of >=
EmitsStrict(acc) == Ge1(acc) /\ acc # FromInt(1)
\* if accumulator >= 1.0
Emits(acc) == Ge1(acc)

\* an emission that leaves the accumulator as it is
KeepAccumulator(acc) == acc
\* accumulator -= 1.0
Decrement(acc) == Sub1(acc)

\* sendFrame: the frame leaves the process (UDP write or hand-over to frameChan)
sendFrame(frameData) == sent' = Append(sent, frameData)

\* ProcessDataFrame: advance the accumulator by out/in and send the frame when
\* it reaches 1.0
ProcessDataFrame(frameData) ==
  LET acc == Add64(accumulator, Ratio(OutputDataRate, InputDataRate))
  IN  /\ nFrames' = nFrames + 1
      /\ IF Emits(acc)
            THEN /\ accumulator' = Decrement(acc)
                 /\ sendFrame(frameData)
                 /\ emitted' = emitted \cup {nFrames + 1}
            ELSE /\ accumulator' = acc
                 /\ UNCHANGED <<sent, emitted>>

\* ProcessConfigurationFrame with an output configured: convert the frame, then
\* send frameData, the slice the conversion wrote the new size into.  Indexing
\* PhasorUnits[0] of a frame without phasor units panics.
ProcessConfigurationFrame(frame, frameData) ==
  IF Len(frame.PhasorUnits) = 0
    THEN /\ pc' = "panicked"
         /\ UNCHANGED <<sent, converted>>
    ELSE LET frameDataConverted == ConvertedConfigurationBytes(frame)
         IN  /\ converted' = Append(converted, frameDataConverted)
             /\ sendFrame(PatchFrameSize(frameData, Len(frameDataConverted)))
             /\ UNCHANGED pc

(***************************************************************************)
(* The aggregation buffer.                                                 *)
(***************************************************************************)
\* the orders in which a range over a map with the given keys can visit them
Orders(keys) ==
  {o \in [1..Cardinality(keys) -> keys] : \A i, j \in DOMAIN o : i # j => o[i] # o[j]}

\* configMutex.Lock() does not return while the mutex is held
LockBlocks(held) == held

\* the result of BuildAggregatedConfigFrame on the buffer, when findFirstKey
\* gives firstKey and the range over the map visits the keys in the given order
Build(buffer, firstKey, order) ==
  [frame |-> AggregatedFrame(buffer, firstKey),
   bytes |-> AggregatedBytes(buffer, firstKey, order),
   first |-> firstKey,
   order |-> order]

\* HandleConfigFrame: store the frame under its IDCode with configMutex held
\* and, when the buffer holds requiredPMUs frames, build the aggregate and hand
\* it to ProcessConfigurationFrame together with the frame just received
HandleConfigFrame(frame, frameData) ==
  LET id     == frame.C37Header.IDCode
      buffer == [k \in DOMAIN configBuffer \cup {id} |->
                   IF k = id THEN frame ELSE configBuffer[k]]
  IN  /\ configBuffer' = buffer
      /\ inserted' = IF id \in DOMAIN configBuffer THEN inserted ELSE Append(inserted, id)
      /\ IF Cardinality(DOMAIN buffer) = requiredPMUs
            THEN IF LockBlocks(TRUE)
                   THEN /\ pc' = "blocked"
                        /\ configMutex' = TRUE
                        /\ UNCHANGED <<sent, converted, aggregated>>
                   ELSE /\ \E firstKey \in DOMAIN buffer, order \in Orders(DOMAIN buffer) :
                             LET built == Build(buffer, firstKey, order)
                             IN  /\ aggregated' = Append(aggregated, built)
                                 /\ ProcessConfigurationFrame(built.frame, frameData)
                        /\ configMutex' = FALSE
            ELSE /\ configMutex' = FALSE
                 /\ UNCHANGED <<pc, sent, converted, aggregated>>

(***************************************************************************)
(* The frames that arrive: three PMUs (IDCodes 7, 11 and 13), each with a  *)
(* Configuration-2 frame and a Data frame, a Configuration-2 frame cut     *)
(* before its CHK, and the Configuration-3 frame of 7.                     *)
(***************************************************************************)
Members == {7, 11, 13}

ChannelName(c) == <<85, 64 + c>>

ConfigOf(id) ==
  CASE id = 7  -> WireConfig2(7, 100, 0, <<83, 55>>,
                              <<SeqPlusName, ChannelName(1), ChannelName(2)>>, <<>>,
                              9155, 1, 50)
    [] id = 11 -> WireConfig2(11, 100, 20000, <<83, 49, 49>>,
                              <<ChannelName(1), ChannelName(2), ChannelName(3)>>,
                              <<<<80>>>>, 1000, 2, 50)
    [] id = 13 -> WireConfig2(13, 101, 0, <<83, 49, 51>>,
                              <<ChannelName(1), ChannelName(2), ChannelName(3), SeqPlusName>>,
                              <<>>, 500, 3, 25)

DataOf(id) ==
  CASE id = 7  -> WireData(7, 102, 0, 3, 0)
    [] id = 11 -> WireData(11, 102, 0, 3, 1)
    [] id = 13 -> WireData(13, 102, 40000, 4, 0)

\* the Configuration-2 frame of 13 without its last two bytes, FRAMESIZE adjusted
CutConfig ==
  LET whole == ConfigOf(13)
  IN  PatchFrameSize(SubSeq(whole, 1, Len(whole) - 2), Len(whole) - 2)

\* the Configuration-3 frame of 7
Config3Of7 ==
  WireConfig3(7, 100, 0, <<83, 55>>, <<SeqPlusName, ChannelName(1), ChannelName(2)>>, 1, 50)

Frames ==
  {ConfigOf(id) : id \in Members} \cup {DataOf(id) : id \in Members}
    \cup {CutConfig, Config3Of7}

\* the datagrams that arrive: the frames, the Data frame of 7 followed by two
\* bytes more, and the Data frame of 13 without its last two bytes
Datagrams ==
  Frames \cup {DataOf(7) \o <<0, 0>>, SubSeq(DataOf(13), 1, Len(DataOf(13)) - 2)}

\* hex.EncodeToString, as the sequence of the digits' values, and hex.DecodeString
HexEncode(b) == SubSeq([i \in 1..(2 * Len(b)) |->
                          IF i % 2 = 1 THEN b[(i + 1) \div 2] \div 16
                          ELSE b[i \div 2] % 16], 1, 2 * Len(b))
HexDecode(line) ==
  IF Len(line) % 2 = 1 THEN Failed
  ELSE SubSeq([i \in 1..(Len(line) \div 2) |-> 16 * line[2 * i - 1] + line[2 * i]],
              1, Len(line) \div 2)

\* the lines of the input file
Lines == {HexEncode(f) : f \in Frames}

(***************************************************************************)
(* The intake: one iteration of the receive loop of StartListening, one    *)
(* line of ProcessFile.                                                    *)
(***************************************************************************)
MaxSteps == 3

\* ReadUDPFrame: the first FRAMESIZE bytes of the datagram, or Failed when the
\* datagram has less than 4 bytes or FRAMESIZE is below 4 or beyond its length
ReadUDPFrame(datagram) ==
  LET n == IF Len(datagram) > 1024 THEN 1024 ELSE Len(datagram)
  IN  IF n < 4 THEN Failed
      ELSE LET frameLength == BE16(datagram, 2)
           IN  IF frameLength < 4 \/ frameLength > n THEN Failed
               ELSE SubSeq(datagram, 1, frameLength)

\* frameBuffer[key] = append(frameBuffer[key], newFrame)
BufferFrame(header, frameData) ==
  LET key      == <<header.Soc, header.FracSec>>
      newFrame == [IDCode |-> header.IDCode, SOC |-> header.Soc,
                   FracSec |-> header.FracSec, FrameRaw |-> frameData]
  IN  frameBuffer' = [k \in DOMAIN frameBuffer \cup {key} |->
                        IF k = key
                          THEN IF key \in DOMAIN frameBuffer
                                 THEN Append(frameBuffer[key], newFrame)
                                 ELSE <<newFrame>>
                          ELSE frameBuffer[k]]

\* what an iteration did with its frame
Did(frameData, header, decoded, dispatched) ==
  last' = [step       |-> steps + 1,
           frame      |-> frameData,
           type       |-> header.DataFrameType,
           id         |-> header.IDCode,
           wasCached  |-> header.IDCode \in cached,
           decoded    |-> decoded,
           dispatched |-> dispatched]

\* the Configuration-2 case of the switch: decode into model.CfgFrame2, return
\* on an error, hand the frame on otherwise (toAggregator: HandleConfigFrame,
\* else ProcessConfigurationFrame)
OnConfiguration2(frameData, header, toAggregator) ==
  LET data  == Slice(frameData, 14, Len(frameData))
      frame == DecodeConfigurationFrame2(data, header)
  IN  /\ InputDataRate' = IF ReadsDataRate(data) THEN DecodedDataRate(data)
                                                 ELSE InputDataRate
      /\ CfgFrame2' = frame
      /\ Did(frameData, header, frame # Nil, frame # Nil)
      /\ UNCHANGED <<CfgFrame3, rateVars>>
      /\ IF frame = Nil
            THEN /\ pc' = "returned"
                 /\ UNCHANGED <<cached, sent, converted, aggVars>>
            ELSE /\ cached' = cached \cup {header.IDCode}
                 /\ IF toAggregator
                       THEN HandleConfigFrame(frame, frameData)
                       ELSE /\ ProcessConfigurationFrame(frame, frameData)
                            /\ UNCHANGED aggVars

\* the Data case of the switch: skip the frame while both configuration slots
\* are nil, else decode it under model.CfgFrame2 and reduce
OnData(frameData, header) ==
  /\ UNCHANGED <<slotVars, converted, aggVars>>
  /\ IF CfgFrame2 = Nil /\ CfgFrame3 = Nil
        THEN /\ Did(frameData, header, FALSE, FALSE)
             /\ UNCHANGED <<pc, sent, rateVars>>
        ELSE IF CfgFrame2 = Nil
        THEN /\ Did(frameData, header, FALSE, FALSE)
             /\ pc' = "panicked"
             /\ UNCHANGED <<sent, rateVars>>
        ELSE IF DecodeDataFrame(Slice(frameData, 14, Len(frameData)), header, CfgFrame2) = Nil
        THEN /\ Did(frameData, header, FALSE, FALSE)
             /\ pc' = "returned"
             /\ UNCHANGED <<sent, rateVars>>
        ELSE /\ Did(frameData, header, TRUE, TRUE)
             /\ ProcessDataFrame(frameData)
             /\ UNCHANGED pc

\* the Configuration-3 case of the switch: decode into model.CfgFrame3, return
\* on an error
OnConfiguration3(frameData, header) ==
  LET frame == DecodeConfigurationFrame3(Slice(frameData, 14, Len(frameData)), header)
  IN  /\ CfgFrame3' = frame
      /\ Did(frameData, header, frame # Nil, FALSE)
      /\ pc' = IF frame = Nil THEN "returned" ELSE pc
      /\ UNCHANGED <<InputDataRate, CfgFrame2, cached, sent, converted, rateVars, aggVars>>

\* the switch on header.DataFrameType; a frame of any other type is ignored
Dispatch(frameData, header, toAggregator) ==
  IF header.DataFrameType = ConfigurationFrame2
    THEN OnConfiguration2(frameData, header, toAggregator)
  ELSE IF header.DataFrameType = ConfigurationFrame3
    THEN OnConfiguration3(frameData, header)
  ELSE IF header.DataFrameType = DataFrame
    THEN OnData(frameData, header)
  ELSE /\ Did(frameData, header, FALSE, FALSE)
       /\ UNCHANGED <<pc, sent, converted, rateVars, slotVars, aggVars>>

\* one iteration of the loop of StartListening on a datagram
StartListening(datagram) ==
  /\ pc = "listening"
  /\ steps < MaxSteps
  /\ steps' = steps + 1
  /\ received' = datagram
  /\ UNCHANGED <<OutputDataRate, netVars, codecVars, taskVars>>
  /\ LET frameData == ReadUDPFrame(datagram)
     IN  IF frameData = Failed
           THEN /\ pc' = "returned"
                /\ UNCHANGED <<frameBuffer, sent, converted, last,
                               rateVars, slotVars, aggVars, file>>
         ELSE /\ file' = Append(file, HexEncode(frameData))
              /\ IF Len(frameData) < 14
                    THEN UNCHANGED <<pc, frameBuffer, sent, converted, last,
                                     rateVars, slotVars, aggVars>>
                    ELSE LET header == DecodeC37Header(Slice(frameData, 0, 14))
                         IN  /\ BufferFrame(header, frameData)
                             /\ Dispatch(frameData, header, TRUE)

\* number of read timeouts followed
MaxTimeouts == 2

\* the lines of the output file that are empty
EmptyLines == {i \in DOMAIN file : file[i] = <<>>}

\* one iteration of the loop of StartListening in which the read deadline
\* passes: ReadUDPFrame returns a nil frame and a nil error, frameData is empty
\* and hexFrame, the empty string, is written to the file with its newline
ReadTimeout ==
  /\ pc = "listening"
  /\ Cardinality(EmptyLines) < MaxTimeouts
  /\ file' = Append(file, HexEncode(<<>>))
  /\ UNCHANGED <<pc, OutputDataRate, frameBuffer, sent, converted, last, steps,
                 rateVars, slotVars, aggVars, received, netVars, codecVars, taskVars>>

\* one iteration of the loop of ProcessFile on a line
ProcessFile(line) ==
  /\ pc = "file"
  /\ steps < MaxSteps
  /\ steps' = steps + 1
  /\ UNCHANGED <<OutputDataRate, frameBuffer, received, netVars, file,
                 codecVars, taskVars>>
  /\ LET frameData == HexDecode(line)
     IN  IF frameData = Failed
           THEN UNCHANGED <<pc, sent, converted, last, rateVars, slotVars, aggVars>>
         ELSE IF Len(frameData) < 14
           THEN /\ pc' = "panicked"
                /\ UNCHANGED <<sent, converted, last, rateVars, slotVars, aggVars>>
         ELSE Dispatch(frameData, DecodeC37Header(Slice(frameData, 0, 14)), FALSE)

(***************************************************************************)
(* Specifications.                                                         *)
(***************************************************************************)
\* the state main leaves before the intake starts, but for pc and the rates
Fresh ==
  /\ accumulator = Zero64
  /\ CfgFrame2 = Nil
  /\ CfgFrame3 = Nil
  /\ frameBuffer = <<>>
  /\ configMutex = FALSE
  /\ sent = <<>>
  /\ converted = <<>>
  /\ aggregated = <<>>
  /\ nFrames = 0
  /\ emitted = {}
  /\ cached = {}
  /\ last = [step |-> 0, frame |-> <<>>, type |-> DataFrame, id |-> 0,
              wasCached |-> FALSE, decoded |-> FALSE, dispatched |-> FALSE]
  /\ steps = 0
  /\ received = <<>>
  /\ frameChan = <<>>
  /\ offered = 0
  /\ handed = <<>>
  /\ file = <<>>

\* no conversion is applied on its own
NoCodec ==
  /\ arg = Nil
  /\ result = Nil

\* the tasks of main and of the listeners are not followed
NoTasks ==
  /\ main = "off"
  /\ listeners = <<>>
  /\ clock = 0
  /\ period = 0

\* a UDP output: no TCP server or client runs
NoTCP ==
  /\ conns = <<>>
  /\ dialer = "off"
  /\ reachable = FALSE

\* the program in listen mode (one port) or in file mode, with a UDP output
Init ==
  /\ Fresh
  /\ pc \in {"listening", "file"}
  /\ InputDataRate = 0
  /\ OutputDataRate \in {25, 50}
  /\ configBuffer = <<>>
  /\ inserted = <<>>
  /\ NoTCP
  /\ NoCodec
  /\ NoTasks

Next ==
  \/ \E datagram \in Datagrams : StartListening(datagram)
  \/ ReadTimeout
  \/ \E line \in Lines : ProcessFile(line)

Spec == Init /\ [][Next]_vars

\* the rate reducer on a stream of Data frames at constant rates
MaxFrames == 50

InputRates == {10, 25, 30, 50, 60}

InitRate ==
  /\ Fresh
  /\ pc = "reducing"
  /\ InputDataRate \in InputRates
  /\ OutputDataRate \in {r \in validFrames : r <= InputDataRate}
  /\ configBuffer = <<>>
  /\ inserted = <<>>
  /\ NoTCP
  /\ NoCodec
  /\ NoTasks

Reduce ==
  /\ pc = "reducing"
  /\ nFrames < MaxFrames
  /\ ProcessDataFrame(DataOf(7))
  /\ UNCHANGED <<pc, OutputDataRate, frameBuffer, converted, last, steps,
                 slotVars, aggVars, received, netVars, file, codecVars, taskVars>>

NextRate == Reduce

SpecRate == InitRate /\ [][NextRate]_vars

\* BuildAggregatedConfigFrame on a buffer filled by HandleConfigFrame
MaxBuilds == 1

\* the decoded Configuration-2 frame of a member
Decoded(id) ==
  LET frameData == ConfigOf(id)
  IN  DecodeConfigurationFrame2(Slice(frameData, 14, Len(frameData)),
                                DecodeC37Header(Slice(frameData, 0, 14)))

InitAgg ==
  /\ Fresh
  /\ pc = "aggregating"
  /\ OutputDataRate = 50
  /\ inserted \in Orders(Members)
  /\ InputDataRate = DecodedDataRate(Slice(ConfigOf(inserted[Len(inserted)]), 14,
                                          Len(ConfigOf(inserted[Len(inserted)]))))
  /\ configBuffer = [id \in {inserted[i] : i \in DOMAIN inserted} |-> Decoded(id)]
  /\ NoTCP
  /\ NoCodec
  /\ NoTasks

BuildAggregatedConfigFrame ==
  /\ pc = "aggregating"
  /\ Len(aggregated) < MaxBuilds
  /\ ~LockBlocks(configMutex)
  /\ \E firstKey \in DOMAIN configBuffer, order \in Orders(DOMAIN configBuffer) :
       aggregated' = Append(aggregated, Build(configBuffer, firstKey, order))
  /\ UNCHANGED <<pc, OutputDataRate, frameBuffer, sent, converted, last, steps,
                 rateVars, slotVars, configBuffer, configMutex, inserted,
                 received, netVars, file, codecVars, taskVars>>

NextAgg == BuildAggregatedConfigFrame

SpecAgg == InitAgg /\ [][NextAgg]_vars

(***************************************************************************)
(* The TCP output: sendFrame hands each frame to the unbuffered channel    *)
(* frameChan; the goroutines of the connections receive from it and write. *)
(* Frames are numbered in the order of the calls of sendFrame.             *)
(***************************************************************************)
MaxOffers == 3

\* what the TCP output leaves alone
intakeVars == <<pc, OutputDataRate, frameBuffer, sent, converted, last, steps,
                rateVars, slotVars, aggVars, received, file, codecVars, taskVars>>

\* a connection: not accepted or dialled yet, just opened, closed
NoConn   == [state |-> "none", held |-> <<>>, written |-> <<>>,
             broken |-> FALSE, failed |-> 0]
OpenConn == [NoConn EXCEPT !.state = "open"]

\* the connections that are open and whose peer still reads
Connected == {c \in DOMAIN conns : conns[c].state = "open" /\ ~conns[c].broken}

\* frameChan <- frameData: sendFrame waits at the channel with the next frame
OfferFrame ==
  /\ frameChan = <<>>
  /\ offered < MaxOffers
  /\ frameChan' = <<offered + 1>>
  /\ offered' = offered + 1

\* frame := <-frameChan in the select of connection c
ReceiveFrame(c) ==
  /\ conns[c].state = "open"
  /\ conns[c].held = <<>>
  /\ frameChan # <<>>
  /\ conns' = [conns EXCEPT ![c].held = frameChan]
  /\ handed' = Append(handed, [frame |-> frameChan[1], audience |-> Connected])
  /\ frameChan' = <<>>

\* conn.Write(frame) appends the frame to what the peer has received
ConnWriteTwice(written, frame) == written \o <<frame, frame>>
ConnWrite(written, frame) == Append(written, frame)

\* the idle timer of connection c fires in its select: the goroutine returns
\* and the deferred conn.Close() runs
IdleTimeout(c) ==
  /\ conns[c].state = "open"
  /\ conns[c].held = <<>>
  /\ conns' = [conns EXCEPT ![c].state = "closed"]

\* the peer of connection c goes away: writes on c fail from now on
PeerGone(c) ==
  /\ conns[c].state = "open"
  /\ ~conns[c].broken
  /\ conns' = [conns EXCEPT ![c].broken = TRUE]

(***************************************************************************)
(* The TCP server.                                                         *)
(***************************************************************************)
Clients == {1, 2}

\* sendFrame with a TCP server output
SendToServer ==
  /\ pc = "serving"
  /\ OfferFrame
  /\ UNCHANGED <<intakeVars, handed, conns, dialer, reachable>>

\* StartTCPServer: listener.Accept() and go handleTCPConnection
Accept(c) ==
  /\ pc = "serving"
  /\ conns[c].state = "none"
  /\ conns' = [conns EXCEPT ![c] = OpenConn]
  /\ UNCHANGED <<intakeVars, frameChan, offered, handed, dialer, reachable>>

\* handleTCPConnection: the case frame := <-frameChan of the select
ServerReceive(c) ==
  /\ pc = "serving"
  /\ ReceiveFrame(c)
  /\ UNCHANGED <<intakeVars, offered, dialer, reachable>>

\* handleTCPConnection: conn.Write(frame); an error is printed and the loop
\* goes on
ServerWrite(c) ==
  /\ pc = "serving"
  /\ conns[c].state = "open"
  /\ conns[c].held # <<>>
  /\ conns' = IF conns[c].broken
                 THEN [conns EXCEPT ![c].held = <<>>,
                                    ![c].failed = conns[c].failed + 1]
                 ELSE [conns EXCEPT ![c].held = <<>>,
                                    ![c].written = ConnWrite(conns[c].written,
                                                             conns[c].held[1])]
  /\ UNCHANGED <<intakeVars, frameChan, offered, handed, dialer, reachable>>

\* handleTCPConnection: the case <-idleTimeout.C of the select
ServerIdle(c) ==
  /\ pc = "serving"
  /\ IdleTimeout(c)
  /\ UNCHANGED <<intakeVars, frameChan, offered, handed, dialer, reachable>>

\* a client of the server goes away
ClientGone(c) ==
  /\ pc = "serving"
  /\ PeerGone(c)
  /\ UNCHANGED <<intakeVars, frameChan, offered, handed, dialer, reachable>>

InitServer ==
  /\ Fresh
  /\ pc = "serving"
  /\ InputDataRate = 0
  /\ OutputDataRate = 50
  /\ configBuffer = <<>>
  /\ inserted = <<>>
  /\ conns = [c \in Clients |-> NoConn]
  /\ NoCodec
  /\ NoTasks
  /\ dialer = "off"
  /\ reachable = FALSE

NextServer ==
  \/ SendToServer
  \/ \E c \in Clients : Accept(c)
  \/ \E c \in Clients : ServerReceive(c)
  \/ \E c \in Clients : ServerWrite(c)
  \/ \E c \in Clients : ServerIdle(c)
  \/ \E c \in Clients : ClientGone(c)

SpecServer == InitServer /\ [][NextServer]_vars

\* the goroutines of the connections are scheduled: a handler whose select can
\* receive does receive, and a write returns.  Whether a client connects is up
\* to the clients.
SpecServerFair ==
  /\ SpecServer
  /\ WF_vars(\E c \in Clients : ServerReceive(c))
  /\ WF_vars(\E c \in Clients : ServerWrite(c))

(***************************************************************************)
(* The TCP client.                                                         *)
(***************************************************************************)
\* the one connection StartTCPClient has at a time
ClientConn == "conn"

\* sendFrame with a TCP client output: the select offers the frame ...
SendToClient ==
  /\ pc = "dialing"
  /\ OfferFrame
  /\ UNCHANGED <<intakeVars, handed, conns, dialer, reachable>>

\* ... and gives up after one second: the frame is dropped
SendTimeout ==
  /\ pc = "dialing"
  /\ frameChan # <<>>
  /\ frameChan' = <<>>
  /\ UNCHANGED <<intakeVars, offered, handed, conns, dialer, reachable>>

\* where StartTCPClient goes after time.Sleep: back to the head of its loop
GivesUp == "off"
AfterSleep == "dial"

\* StartTCPClient: dialer.Dial; on an error print and sleep, else serve the
\* connection
Dial ==
  /\ pc = "dialing"
  /\ dialer = "dial"
  /\ IF reachable
        THEN /\ conns' = [conns EXCEPT ![ClientConn] = OpenConn]
             /\ dialer' = "connected"
        ELSE /\ dialer' = "sleep"
             /\ UNCHANGED conns
  /\ UNCHANGED <<intakeVars, frameChan, offered, handed, reachable>>

\* StartTCPClient: time.Sleep(3 * time.Second) is over
Wake ==
  /\ pc = "dialing"
  /\ dialer = "sleep"
  /\ dialer' = AfterSleep
  /\ UNCHANGED <<intakeVars, frameChan, offered, handed, conns, reachable>>

\* sendFramesOverConnection: the case frame := <-frameChan of the select
ClientReceive ==
  /\ pc = "dialing"
  /\ dialer = "connected"
  /\ ReceiveFrame(ClientConn)
  /\ UNCHANGED <<intakeVars, offered, dialer, reachable>>

\* sendFramesOverConnection: conn.Write(frame); on an error return, which
\* closes the connection and takes StartTCPClient to its sleep
ClientWrite ==
  /\ pc = "dialing"
  /\ dialer = "connected"
  /\ conns[ClientConn].held # <<>>
  /\ IF conns[ClientConn].broken
        THEN /\ conns' = [conns EXCEPT ![ClientConn].held = <<>>,
                                       ![ClientConn].state = "closed",
                                       ![ClientConn].failed = conns[ClientConn].failed + 1]
             /\ dialer' = "sleep"
        ELSE /\ conns' = [conns EXCEPT ![ClientConn].held = <<>>,
                                       ![ClientConn].written =
                                         ConnWrite(conns[ClientConn].written,
                                                   conns[ClientConn].held[1])]
             /\ UNCHANGED dialer
  /\ UNCHANGED <<intakeVars, frameChan, offered, handed, reachable>>

\* sendFramesOverConnection: the case <-idleTimeout.C of the select
ClientIdle ==
  /\ pc = "dialing"
  /\ dialer = "connected"
  /\ IdleTimeout(ClientConn)
  /\ dialer' = "sleep"
  /\ UNCHANGED <<intakeVars, frameChan, offered, handed, reachable>>

\* the server the client dials comes up, goes down, drops the connection
ServerUp ==
  /\ pc = "dialing"
  /\ ~reachable
  /\ reachable' = TRUE
  /\ UNCHANGED <<intakeVars, frameChan, offered, handed, conns, dialer>>

ServerDown ==
  /\ pc = "dialing"
  /\ reachable
  /\ reachable' = FALSE
  /\ UNCHANGED <<intakeVars, frameChan, offered, handed, conns, dialer>>

ServerGone ==
  /\ pc = "dialing"
  /\ PeerGone(ClientConn)
  /\ UNCHANGED <<intakeVars, frameChan, offered, handed, dialer, reachable>>

InitClient ==
  /\ Fresh
  /\ pc = "dialing"
  /\ InputDataRate = 0
  /\ OutputDataRate = 50
  /\ configBuffer = <<>>
  /\ inserted = <<>>
  /\ conns = [c \in {ClientConn} |-> NoConn]
  /\ NoCodec
  /\ NoTasks
  /\ dialer = "dial"
  /\ reachable \in BOOLEAN

NextClient ==
  \/ SendToClient
  \/ SendTimeout
  \/ Dial
  \/ Wake
  \/ ClientReceive
  \/ ClientWrite
  \/ ClientIdle
  \/ ServerUp
  \/ ServerDown
  \/ ServerGone

\* Dial returns within its timeout and Sleep ends: both steps are taken
SpecClient == InitClient /\ [][NextClient]_vars /\ WF_vars(Dial) /\ WF_vars(Wake)

(***************************************************************************)
(* The STAT word.  The texts of the maps are written without diacritics.   *)
(***************************************************************************)
\* dataErrorMap, unlockedTimeMap, triggerReasonMap and pmuTimeQualityMap of
\* DecodeStat; the maps of EncodeStat are their inverses
dataErrorMap ==
  (0 :> "Dobre dane pomiarowe, brak bledow"
   @@ 1 :> "Blad PMU. Brak informacji o danych"
   @@ 2 :> "PMU w trybie testowym lub brak danych"
   @@ 3 :> "Blad PMU (nie uzywac wartosci)")

unlockedTimeMap ==
  (0 :> "Synchronizacja zablokowana lub odblokowana < 10 s (najlepsza jakosc)"
   @@ 1 :> "10 s <= odblokowany czas < 100 s"
   @@ 2 :> "100 s < odblokowany czas <= 1000 s"
   @@ 3 :> "Odblokowany czas > 1000 s")

triggerReasonMap ==
  (15 :> "Definicja uzytkownika"
   @@ 7 :> "Cyfrowe"
   @@ 5 :> "df/dt wysokie"
   @@ 3 :> "Roznica kata fazowego"
   @@ 1 :> "Mala amplituda"
   @@ 6 :> "Zarezerwowane"
   @@ 4 :> "Wysoka lub niska czestotliwosc"
   @@ 2 :> "Duza amplituda"
   @@ 0 :> "Manualne")

pmuTimeQualityMap ==
  (7 :> "Maksymalny blad czasu > 10 ms lub nieznany"
   @@ 6 :> "Maksymalny blad czasu < 10 ms"
   @@ 5 :> "Maksymalny blad czasu < 1 ms"
   @@ 4 :> "Maksymalny blad czasu < 100 us"
   @@ 3 :> "Maksymalny blad czasu < 10 us"
   @@ 2 :> "Maksymalny blad czasu < 1 us"
   @@ 1 :> "Maksymalny blad czasu < 100 ns"
   @@ 0 :> "Nie uzywany (kod z poprzedniej wersji profilu)")

\* m[k] of a Go map: the zero value, the empty string, for a key m lacks
MapGet(m, k) == IF k \in DOMAIN m THEN m[k] ELSE ""

\* v, ok := inverse[s]: the key m gives s under, -1 when there is none (ok is
\* false)
MapKey(m, s) ==
  IF \E k \in DOMAIN m : m[k] = s THEN CHOOSE k \in DOMAIN m : m[k] = s ELSE -1

\* DecodeStat
DecodeStat(stat) ==
  [DataError      |-> MapGet(dataErrorMap, (stat \div 16384) % 4),
   PMUSync        |-> (stat \div 8192) % 2 = 0,
   DataSorting    |-> (stat \div 4096) % 2 = 1,
   PMUTrigger     |-> (stat \div 2048) % 2 = 1,
   ConfigChange   |-> (stat \div 1024) % 2 = 1,
   DataModified   |-> (stat \div 512) % 2 = 1,
   PMUTimeQuality |-> MapGet(pmuTimeQualityMap, (stat \div 64) % 8),
   UnlockedTime   |-> MapGet(unlockedTimeMap, (stat \div 16) % 4),
   TriggerReason  |-> MapGet(triggerReasonMap, stat % 16)]

\* EncodeStat: the word and no error, or 0 and an error when a text is in none
\* of the maps
EncodeStat(stat) ==
  LET dataError      == MapKey(dataErrorMap, stat.DataError)
      pmuTimeQuality == MapKey(pmuTimeQualityMap, stat.PMUTimeQuality)
      unlockedTime   == MapKey(unlockedTimeMap, stat.UnlockedTime)
      triggerReason  == MapKey(triggerReasonMap, stat.TriggerReason)
  IN  IF -1 \in {dataError, pmuTimeQuality, unlockedTime, triggerReason}
        THEN [value |-> 0, err |-> TRUE]
        ELSE [value |-> dataError * 16384
                          + (IF stat.PMUSync THEN 0 ELSE 8192)
                          + (IF stat.DataSorting THEN 4096 ELSE 0)
                          + (IF stat.PMUTrigger THEN 2048 ELSE 0)
                          + (IF stat.ConfigChange THEN 1024 ELSE 0)
                          + (IF stat.DataModified THEN 512 ELSE 0)
                          + pmuTimeQuality * 64
                          + unlockedTime * 16
                          + triggerReason,
              err   |-> FALSE]

(***************************************************************************)
(* The conversions applied on their own.                                   *)
(***************************************************************************)
\* the arguments: every STAT word
StatWords == 0..65535
StatArgs == [stat : StatWords]

IsStat(a) == DOMAIN a = {"stat"}

\* and the Configuration-2 frames of the members, decoded
ConfigArgs == [frame : {Decoded(id) : id \in Members}]

IsConfig(a) == DOMAIN a = {"frame"}

\* a Configuration-2 frame whose second phasor is named "zgodna U", decoded
ZgodnaConfig ==
  LET frameData == WireConfig2(17, 100, 0, <<83, 49, 55>>,
                               <<ChannelName(1), ZgodnaUName>>, <<>>, 1000, 1, 50)
  IN  DecodeConfigurationFrame2(Slice(frameData, 14, Len(frameData)),
                                DecodeC37Header(Slice(frameData, 0, 14)))

\* and the data frames decoded under a configuration, with their STAT word
DataArgs == [cfg : {Decoded(id) : id \in Members} \cup {ZgodnaConfig}, word : {0, 8}]

IsData(a) == DOMAIN a = {"cfg", "word"}

\* EncodeStat(DecodeStat(stat)), as ConvertDataFrame computes the STAT it writes
ReencodeStat ==
  /\ pc = "converting"
  /\ IsStat(arg)
  /\ result = Nil
  /\ result' = EncodeStat(DecodeStat(arg.stat))
  /\ UNCHANGED <<pc, OutputDataRate, frameBuffer, sent, converted, last, steps,
                 rateVars, slotVars, aggVars, received, netVars, file, arg, taskVars>>

\* ConvertConfigurationFrame, and DecodeConfigurationFrame2 of its bytes
ReencodeConfiguration ==
  /\ pc = "converting"
  /\ IsConfig(arg)
  /\ result = Nil
  /\ LET bytes == ConvertedConfigurationBytes(arg.frame)
     IN  result' = DecodeConfigurationFrame2(Slice(bytes, 14, Len(bytes)),
                                             DecodeC37Header(Slice(bytes, 0, 14)))
  /\ UNCHANGED <<pc, OutputDataRate, frameBuffer, sent, converted, last, steps,
                 rateVars, slotVars, aggVars, received, netVars, file, arg, taskVars>>

\* ConvertDataFrame keeps the phasors whose name is "U_SEQ+"
FilteredPhasors(names) == SelectSeq(names, LAMBDA name : name = SeqPlusName)

\* EncodePhasors finds a phasor whose name contains "U_SEQ+" or "zgodna U"
EncodePhasorsFinds(names) ==
  \E i \in 1..Len(names) : Contains(names[i], SeqPlusName) \/ Contains(names[i], ZgodnaUName)

\* ConvertDataFrame returns an error: that of EncodeStat or that of
\* EncodePhasors on the phasors it kept
ConvertDataFrameFails(stat, names) ==
  \/ EncodeStat(stat).err
  \/ ~EncodePhasorsFinds(FilteredPhasors(names))

\* ConvertDataFrame on a data frame decoded under arg.cfg
ConvertDataFrame ==
  /\ pc = "converting"
  /\ IsData(arg)
  /\ result = Nil
  /\ result' = [err |-> ConvertDataFrameFails(DecodeStat(arg.word), PhasorNames(arg.cfg))]
  /\ UNCHANGED <<pc, OutputDataRate, frameBuffer, sent, converted, last, steps,
                 rateVars, slotVars, aggVars, received, netVars, file, arg, taskVars>>

InitCodec ==
  /\ Fresh
  /\ pc = "converting"
  /\ InputDataRate = 0
  /\ OutputDataRate = 50
  /\ configBuffer = <<>>
  /\ inserted = <<>>
  /\ NoTCP
  /\ NoTasks
  /\ arg \in StatArgs \cup ConfigArgs \cup DataArgs
  /\ result = Nil

NextCodec ==
  \/ ReencodeStat
  \/ ReencodeConfiguration
  \/ ConvertDataFrame

SpecCodec == InitCodec /\ [][NextCodec]_vars

(***************************************************************************)
(* main and the listeners it starts.                                       *)
(***************************************************************************)
\* seconds followed
MaxClock == 4

\* the -ports flag and the values of the -time flag
Ports == {4716, 4717}
Periods == {0, 2}

otherVars == <<pc, OutputDataRate, frameBuffer, sent, converted, last, steps,
               rateVars, slotVars, aggVars, received, netVars, file, codecVars>>

NotStarted == [state |-> "none", since |-> 0]

\* the ports main has not started a listener on
Pending == {p \in Ports : listeners[p].state = "none"}

\* main, listen mode: go handler.StartListening(p, ...) for the next port of
\* the list; the listener sets its timeout from the time it starts
GoStartListening(p) ==
  /\ main = "spawning"
  /\ p \in Pending
  /\ \A q \in Pending : p <= q
  /\ listeners' = [listeners EXCEPT ![p] = [state |-> "listening", since |-> clock]]
  /\ UNCHANGED <<otherVars, main, clock, period>>

\* main returns after the loop over the ports: the process ends and with it
\* every listener that still runs
MainReturns ==
  /\ main = "spawning"
  /\ Pending = {}
  /\ main' = "returned"
  /\ listeners' = [p \in Ports |->
                     IF listeners[p].state = "listening"
                       THEN [listeners[p] EXCEPT !.state = "killed"]
                       ELSE listeners[p]]
  /\ UNCHANGED <<otherVars, clock, period>>

\* a second passes while the process runs
Tick ==
  /\ main = "spawning"
  /\ clock < MaxClock
  /\ clock' = clock + 1
  /\ UNCHANGED <<otherVars, main, listeners, period>>

\* StartListening: case <-timeout of the select, period seconds after the start
ListeningTimeout(p) ==
  /\ listeners[p].state = "listening"
  /\ period > 0
  /\ clock - listeners[p].since >= period
  /\ listeners' = [listeners EXCEPT ![p].state = "stopped"]
  /\ UNCHANGED <<otherVars, main, clock, period>>

\* StartListening: break loop on a read or write error, return on a frame that
\* does not decode
ListeningEnds(p) ==
  /\ listeners[p].state = "listening"
  /\ listeners' = [listeners EXCEPT ![p].state = "ended"]
  /\ UNCHANGED <<otherVars, main, clock, period>>

InitMain ==
  /\ Fresh
  /\ pc = "main"
  /\ InputDataRate = 0
  /\ OutputDataRate = 50
  /\ configBuffer = <<>>
  /\ inserted = <<>>
  /\ NoTCP
  /\ NoCodec
  /\ main = "spawning"
  /\ listeners = [p \in Ports |-> NotStarted]
  /\ clock = 0
  /\ period \in Periods

NextMain ==
  \/ \E p \in Ports : GoStartListening(p)
  \/ MainReturns
  \/ Tick
  \/ \E p \in Ports : ListeningTimeout(p)
  \/ \E p \in Ports : ListeningEnds(p)

SpecMain == InitMain /\ [][NextMain]_vars

(***************************************************************************)
(* Several listeners, one per port, each receiving the stream of one PMU.  *)
(* The iterations of the listeners interleave; the listeners are followed  *)
(* until one of them returns, blocks or panics.                            *)
(***************************************************************************)
\* the PMU that sends to a port, and the port a PMU sends to
PMUOf(p) == IF p = 4716 THEN 7 ELSE 13
PortOf(id) == CHOOSE p \in Ports : PMUOf(p) = id

\* the datagrams that arrive on a port
StreamOf(p) ==
  {ConfigOf(PMUOf(p)), DataOf(PMUOf(p))}
    \cup (IF PMUOf(p) = 7 THEN {Config3Of7} ELSE {CutConfig})

\* one iteration of the listener on port p
ListenOn(p, datagram) ==
  /\ listeners[p].state = "listening"
  /\ datagram \in StreamOf(p)
  /\ StartListening(datagram)

InitPorts ==
  /\ Fresh
  /\ pc = "listening"
  /\ InputDataRate = 0
  /\ OutputDataRate \in {25, 50}
  /\ configBuffer = <<>>
  /\ inserted = <<>>
  /\ NoTCP
  /\ NoCodec
  /\ main = "spawning"
  /\ listeners = [p \in Ports |-> [state |-> "listening", since |-> 0]]
  /\ clock = 0
  /\ period = 0

NextPorts == \E p \in Ports : \E datagram \in StreamOf(p) : ListenOn(p, datagram)

SpecPorts == InitPorts /\ [][NextPorts]_vars

(***************************************************************************)
(* ProcessDataFrame called by several listeners at once.  The accumulator  *)
(* is a package variable read and written without synchronisation: each    *)
(* read and each write of it is a step of its own.                         *)
(***************************************************************************)
\* calls of ProcessDataFrame followed
MaxCalls == 4

\* a negative accumulator, which the digits do not hold: the tasks are followed
\* no further
BelowZero == <<-1>>

Idle == [state |-> "listening", since |-> 0, at |-> "idle", reg |-> Zero64, call |-> 0]

raceVars == <<pc, OutputDataRate, frameBuffer, converted, last, steps, slotVars,
              aggVars, received, netVars, file, codecVars, main, clock, period>>

\* the listener on port p calls ProcessDataFrame
CallProcessDataFrame(p) ==
  /\ pc = "racing"
  /\ accumulator # BelowZero
  /\ listeners[p].at = "idle"
  /\ nFrames < MaxCalls
  /\ nFrames' = nFrames + 1
  /\ listeners' = [listeners EXCEPT ![p].at = "add", ![p].call = nFrames + 1]
  /\ UNCHANGED <<raceVars, accumulator, emitted, sent>>

\* accumulator += ratio: the read
LoadToAdd(p) ==
  /\ pc = "racing"
  /\ accumulator # BelowZero
  /\ listeners[p].at = "add"
  /\ listeners' = [listeners EXCEPT ![p].at = "added", ![p].reg = accumulator]
  /\ UNCHANGED <<raceVars, rateVars, sent>>

\* accumulator += ratio: the write
StoreSum(p) ==
  /\ pc = "racing"
  /\ accumulator # BelowZero
  /\ listeners[p].at = "added"
  /\ accumulator' = Add64(listeners[p].reg, Ratio(OutputDataRate, InputDataRate))
  /\ listeners' = [listeners EXCEPT ![p].at = "test"]
  /\ UNCHANGED <<raceVars, nFrames, emitted, sent>>

\* if accumulator >= 1.0
TestAccumulator(p) ==
  /\ pc = "racing"
  /\ accumulator # BelowZero
  /\ listeners[p].at = "test"
  /\ listeners' = [listeners EXCEPT ![p].at = IF Emits(accumulator) THEN "sub" ELSE "idle"]
  /\ UNCHANGED <<raceVars, rateVars, sent>>

\* accumulator -= 1.0: the read
LoadToSubtract(p) ==
  /\ pc = "racing"
  /\ accumulator # BelowZero
  /\ listeners[p].at = "sub"
  /\ listeners' = [listeners EXCEPT ![p].at = "subbed", ![p].reg = accumulator]
  /\ UNCHANGED <<raceVars, rateVars, sent>>

\* accumulator -= 1.0: the write, and the frame is sent
StoreDifference(p) ==
  /\ pc = "racing"
  /\ accumulator # BelowZero
  /\ listeners[p].at = "subbed"
  /\ accumulator' = IF Ge1(listeners[p].reg) THEN Decrement(listeners[p].reg) ELSE BelowZero
  /\ sendFrame(DataOf(PMUOf(p)))
  /\ emitted' = emitted \cup {listeners[p].call}
  /\ listeners' = [listeners EXCEPT ![p].at = "idle"]
  /\ UNCHANGED <<raceVars, nFrames>>

InitRace ==
  /\ Fresh
  /\ pc = "racing"
  /\ InputDataRate = 50
  /\ OutputDataRate \in {25, 50}
  /\ configBuffer = <<>>
  /\ inserted = <<>>
  /\ NoTCP
  /\ NoCodec
  /\ main = "spawning"
  /\ listeners = [p \in Ports |-> Idle]
  /\ clock = 0
  /\ period = 0

NextRace ==
  \E p \in Ports :
    \/ CallProcessDataFrame(p)
    \/ LoadToAdd(p)
    \/ StoreSum(p)
    \/ TestAccumulator(p)
    \/ LoadToSubtract(p)
    \/ StoreDifference(p)

SpecRace == InitRace /\ [][NextRace]_vars

(***************************************************************************)
(* The rate reducer (SpecRate).                                            *)
(***************************************************************************)
\* floor(N * p) for the N = nFrames frames processed so far and p = out / in
FloorNp == (nFrames * OutputDataRate) \div InputDataRate

\* C2: for input rate R_in > 0 and target rate 0 < R_out <= R_in, after every
\* call of ProcessDataFrame on a stream that started with accumulator = 0, the
\* accumulator is at least 0 and below 1.
C2_AccumulatorInUnitInterval ==
  (0 < OutputDataRate /\ OutputDataRate <= InputDataRate)
    => /\ \A i \in 1..Width : accumulator[i] \in {0, 1}
       /\ ~Ge1(accumulator)

\* a stream at 60 -> 25 frames/s that has emitted frames and holds a fraction
C2_Witness ==
  /\ InputDataRate = 60
  /\ OutputDataRate = 25
  /\ nFrames >= 12
  /\ Cardinality(emitted) >= 5
  /\ accumulator # Zero64
  /\ ~Ge1(accumulator)

\* C3: for a stream of N consecutive data frames processed with a constant
\* ratio p = R_out / R_in (0 < p <= 1), the number of frames the reducer
\* decides to emit is floor(N * p) or floor(N * p) + 1.
C3_EmittedCount ==
  (0 < OutputDataRate /\ OutputDataRate <= InputDataRate)
    => Cardinality(emitted) \in {FloorNp, FloorNp + 1}

\* C4: with R_in = 50, R_out = 10 and an initial accumulator of 0, of 50
\* sequential data frames exactly 10 are emitted, the 5th, 10th, ..., 50th, and
\* the accumulator is back at 0 after each emission.
C4_EveryFifthFrame ==
  (InputDataRate = 50 /\ OutputDataRate = 10)
    => /\ emitted = {k \in 1..nFrames : k % 5 = 0}
       /\ Len(sent) = Cardinality(emitted)
       /\ nFrames \in emitted => accumulator = Zero64
       /\ nFrames = 50 => Cardinality(emitted) = 10

\* the 50th frame of the 50 -> 10 stream has just been the 10th one emitted
C4_Witness ==
  /\ InputDataRate = 50
  /\ OutputDataRate = 10
  /\ nFrames = 50
  /\ emitted = {5, 10, 15, 20, 25, 30, 35, 40, 45, 50}
  /\ Len(sent) = 10
  /\ accumulator = Zero64

(***************************************************************************)
(* The aggregated configuration frame (SpecAgg).                           *)
(***************************************************************************)
\* the member frames in the order in which they were put into the buffer
RECURSIVE SumInserted(_, _)
SumInserted(n, field) ==
  IF n = 0 THEN 0
  ELSE configBuffer[inserted[n]][field] + SumInserted(n - 1, field)

\* offset of NUM_PMU in the aggregated bytes: SYNC, FRAMESIZE, IDCODE, SOC,
\* FRACSEC and TIME_BASE come before it
NumPMUOffset == 18

\* C6: two runs that insert the same sequence of N Config-2 frames produce
\* byte-identical aggregated output, and the per-PMU blocks are concatenated
\* in insertion order.
C6_InsertionOrderBytes ==
  /\ \A i \in DOMAIN aggregated :
       aggregated[i].bytes
         = AggregatedBytes(configBuffer, aggregated[i].first, inserted)
  /\ \A i, j \in DOMAIN aggregated : aggregated[i].bytes = aggregated[j].bytes

\* C7: the aggregated frame's soc, fracsec, time_base, config_count, data_rate
\* and fnom are those of the first-seen (earliest inserted) member of the
\* buffer, for every insertion order of the member frames.
C7_InheritsFromFirstSeen ==
  \A i \in DOMAIN aggregated :
    LET agg   == aggregated[i].frame
        first == configBuffer[inserted[1]]
    IN  /\ agg.C37Header.Soc = first.C37Header.Soc
        /\ agg.C37Header.FracSec = first.C37Header.FracSec
        /\ agg.TimeBase = first.TimeBase
        /\ agg.ConfigCount = first.ConfigCount
        /\ agg.DataRate = first.DataRate
        /\ agg.FNom = first.FNom

\* C8: the aggregated Config-2 built from N buffered member frames has
\* num_pmu = N, id_code = 999, and num_phasors, num_analogs and num_digitals
\* equal to the sums of the members' counts.
C8_AggregatedCounts ==
  \A i \in DOMAIN aggregated :
    LET agg == aggregated[i].frame
        n   == Len(inserted)
    IN  /\ agg.NumPMU = n
        /\ BE16(aggregated[i].bytes, NumPMUOffset) = n
        /\ agg.C37Header.IDCode = 999
        /\ BE16(aggregated[i].bytes, 4) = 999
        /\ agg.NumPhasors = SumInserted(n, "NumPhasors")
        /\ agg.NumAnalogs = SumInserted(n, "NumAnalogs")
        /\ agg.NumDigitals = SumInserted(n, "NumDigitals")

\* an aggregate of the three members with 3, 3 and 4 phasors and one analog
C8_Witness ==
  /\ Len(aggregated) >= 1
  /\ {configBuffer[id].NumPhasors : id \in DOMAIN configBuffer} = {3, 4}
  /\ aggregated[1].frame.NumPMU = 3
  /\ aggregated[1].frame.NumPhasors = 10
  /\ aggregated[1].frame.NumAnalogs = 1
  /\ aggregated[1].frame.C37Header.IDCode = 999

(***************************************************************************)
(* The intake, the aggregation buffer and the frames sent (Spec).          *)
(***************************************************************************)
\* the iteration that has just run looked at a frame of the given type
Handled(type) == last'.step # last.step /\ last'.type = type

\* C1: in every reachable state in which no configuration frame with id_code X
\* has been cached, processing a Data frame with id_code X neither decodes nor
\* dispatches it and leaves the configuration slots, the timestamp-keyed frame
\* buffer, the aggregation buffer and the rate accumulator unchanged.
C1_DataDroppedWithoutConfiguration ==
  [][(Handled(DataFrame) /\ ~last'.wasCached)
       => /\ ~last'.decoded
          /\ ~last'.dispatched
          /\ UNCHANGED <<CfgFrame2, CfgFrame3, frameBuffer, configBuffer,
                         accumulator>>]_vars

\* C5: whenever HandleConfigFrame makes the set of distinct buffered IDCODEs
\* reach requiredPMUs, one aggregated Config-2 frame is built and published
\* and the aggregation buffer is reset to empty; on every other configuration
\* frame the aggregator publishes nothing.
C5_AggregatorCycle ==
  [][(pc = "listening" /\ Handled(ConfigurationFrame2) /\ last'.decoded)
       => IF Cardinality(DOMAIN configBuffer \cup {last'.id}) = requiredPMUs
            THEN /\ Len(aggregated') = Len(aggregated) + 1
                 /\ Len(sent') = Len(sent) + 1
                 /\ configBuffer' = <<>>
            ELSE /\ aggregated' = aggregated
                 /\ sent' = sent
                 /\ DOMAIN configBuffer' = DOMAIN configBuffer \cup {last'.id}]_vars

\* C9: for every byte sequence F handed to sendFrame, the big-endian 16-bit
\* frame_size field at bytes 2..3 of F equals len(F).
C9_FrameSizeIsLength ==
  \A i \in DOMAIN sent : BE16(sent[i], 2) = Len(sent[i])

\* the last two bytes of F are the CRC-CCITT of all bytes of F before them
EndsWithCRC(F) ==
  /\ Len(F) >= 2
  /\ SubSeq(F, Len(F) - 1, Len(F)) = U16(CalculateCRC(SubSeq(F, 1, Len(F) - 2)))

\* C10: for every frame F produced by the re-serializer, the last two bytes of
\* F are the CRC-CCITT of all preceding bytes of F.
C10_TrailingCRC ==
  /\ \A i \in DOMAIN converted : EndsWithCRC(converted[i])
  /\ \A i \in DOMAIN aggregated : EndsWithCRC(aggregated[i].bytes)

(***************************************************************************)
(* The data frames handed on (Spec).                                       *)
(***************************************************************************)
\* the iteration that has just run sent a frame
SentOne == Len(sent') = Len(sent) + 1

\* C11: every data frame that ProcessDataFrame hands to the dispatcher is the
\* projected frame, with exactly 1 phasor, 0 analog values and 0 digital
\* words, whatever the channel counts of the source frame.
C11_DataFramesProjected ==
  [][(Handled(DataFrame) /\ SentOne)
       => Len(sent'[Len(sent')]) = ProjectedDataLength(CfgFrame2)]_vars

\* C12: when a data frame contains no phasor matching the selection rule,
\* nothing is dispatched for that frame.
C12_NothingSentWithoutSelectedPhasor ==
  [][(Handled(DataFrame) /\ last'.decoded /\ ~SelectsPhasor(CfgFrame2))
       => sent' = sent]_vars

\* C13: for every Config-2 input with at least one phasor,
\* ConvertConfigurationFrame returns a frame with num_phasors = 1,
\* num_analogs = 0, num_digitals = 0, the channel names exactly ["U_SEQ+"],
\* exactly one PHUNIT (the input's first), no ANUNIT or DIGUNIT entries, and
\* data_rate equal to the target output rate selected by the operator.
C13_ProjectedConfiguration ==
  [][(Handled(ConfigurationFrame2) /\ Len(converted') = Len(converted) + 1)
       => LET out   == ConvertedConfigurationFrame(CfgFrame2')
              bytes == converted'[Len(converted')]
          IN  /\ out.NumPhasors = 1
              /\ out.NumAnalogs = 0
              /\ out.NumDigitals = 0
              /\ out.ChannelNames = <<SeqPlusName>>
              /\ out.PhasorUnits = <<CfgFrame2'.PhasorUnits[1]>>
              /\ out.AnalogUnits = <<>>
              /\ out.DigitalUnits = <<>>
              /\ out.DataRate = OutputDataRate
              /\ BE16(bytes, Len(bytes) - 9) = OutputDataRate]_vars

(***************************************************************************)
(* Decode failures and the configuration slots (Spec).                     *)
(***************************************************************************)
\* the iteration that has just run failed to decode the body of its frame
BodyDecodeFailed ==
  \/ Handled(ConfigurationFrame2) /\ ~last'.decoded
  \/ Handled(DataFrame) /\ CfgFrame2 # Nil /\ ~last'.decoded

\* C14: after any decode failure of a received frame the intake drops only
\* that frame and goes on reading and processing frames; no decode error
\* terminates or crashes the intake loop.
C14_IntakeSurvivesDecodeFailure ==
  [][BodyDecodeFailed => pc' = pc]_vars

\* C15: once a Config-2 has been cached its configuration slot stays
\* non-empty in every later state, and a later configuration frame that fails
\* to decode leaves the cached configuration unchanged.
C15_ConfigurationSlotKept ==
  [][CfgFrame2 # Nil
       => /\ CfgFrame2' # Nil
          /\ (Handled(ConfigurationFrame2) /\ ~last'.decoded)
               => CfgFrame2' = CfgFrame2]_vars

(***************************************************************************)
(* The datagrams read (Spec).                                              *)
(***************************************************************************)
\* C20: a received datagram is accepted only if its frame_size field equals
\* the number of bytes received; a datagram whose frame_size is smaller or
\* larger than its length is rejected and not processed.
C20_FrameSizeEqualsBytesReceived ==
  [][(pc = "listening" /\ steps' = steps + 1
        /\ BE16(received', 2) # Len(received'))
       => /\ last' = last
          /\ UNCHANGED <<frameBuffer, sent, converted, rateVars, slotVars, aggVars>>]_vars

(***************************************************************************)
(* The TCP server (SpecServer).                                            *)
(***************************************************************************)
\* no frame is on its way: none waits at the channel, no goroutine holds one
Quiet == frameChan = <<>> /\ \A c \in DOMAIN conns : conns[c].held = <<>>

\* the frames written on connection c
Written(c) == {conns[c].written[i] : i \in DOMAIN conns[c].written}

\* C16: with k >= 2 clients connected at the same time, every outbound frame
\* put on the dispatcher channel is written to each of the k client
\* connections.
C16_EveryClientGetsEveryFrame ==
  Quiet => \A i \in DOMAIN handed :
             Cardinality(handed[i].audience) >= 2
               => \A c \in handed[i].audience \cap Connected :
                    handed[i].frame \in Written(c)

\* C17: when writing a frame to an accepted client fails, that client's
\* session is terminated: the connection is closed and its handler takes no
\* more frames from the dispatcher channel.
C17_FailedWriteEndsSession ==
  [][\A c \in DOMAIN conns :
       conns'[c].failed > conns[c].failed => conns'[c].state = "closed"]_vars

Emission(frame) == CHOOSE i \in DOMAIN handed : handed[i].frame = frame

\* C19: the frames written on any single TCP connection are in the relative
\* order in which sendFrame emitted them into the dispatcher channel, and no
\* frame is written twice on a connection.
C19_WrittenInEmissionOrder ==
  \A c \in DOMAIN conns :
    LET w == conns[c].written
    IN  /\ \A i \in DOMAIN w : \E k \in DOMAIN handed : handed[k].frame = w[i]
        /\ \A i, j \in DOMAIN w : i < j => Emission(w[i]) < Emission(w[j])

\* a connection on which two frames have been written
C19_Witness ==
  /\ Len(conns[ClientConn].written) >= 2
  /\ Len(handed) >= 2

(***************************************************************************)
(* The capture file (Spec).                                                *)
(***************************************************************************)
\* C24: every line written to the output file is the hex of exactly one
\* received frame, and an iteration that received no frame writes nothing.
C24_CaptureLinesAreFrames ==
  [][file' # file =>
       /\ steps' = steps + 1
       /\ ReadUDPFrame(received') # Failed
       /\ file' = Append(file, HexEncode(ReadUDPFrame(received')))]_vars

(***************************************************************************)
(* The conversions (SpecCodec).                                            *)
(***************************************************************************)
\* C21: for every 16-bit STAT word s, EncodeStat(DecodeStat(s)) succeeds and
\* returns s.
C21_StatPreserved ==
  (IsStat(arg) /\ result # Nil) => (~result.err /\ result.value = arg.stat)

\* C23: decoding the bytes the encoder produced for a Configuration-2 frame C
\* yields C again in station_name, id_code_2, format, time_base, fnom,
\* config_count, the kept channel name and the kept PHUNIT type and factor.
C23_ConfigurationRoundTrip ==
  (IsConfig(arg) /\ result # Nil) =>
     LET C == arg.frame
         kept == ConvertedConfigurationFrame(C)
     IN  /\ result.StationName = C.StationName
         /\ result.IDCode2 = C.IDCode2
         /\ result.Format = C.Format
         /\ result.TimeBase = C.TimeBase
         /\ result.FNom = C.FNom
         /\ result.ConfigCount = C.ConfigCount
         /\ result.ChannelNames = kept.ChannelNames
         /\ result.PhasorUnits = kept.PhasorUnits

\* C26: ConvertDataFrame succeeds on every data frame that has a phasor whose
\* channel name contains "U_SEQ+" or "zgodna U".
C26_SelectionBySubstring ==
  (IsData(arg) /\ result # Nil /\ SelectsPhasor(arg.cfg)) => ~result.err

(***************************************************************************)
(* The aggregator's mutex (Spec).                                          *)
(***************************************************************************)
\* C27: every call of HandleConfigFrame terminates and releases configMutex,
\* including the call that makes the buffer reach requiredPMUs and invokes
\* BuildAggregatedConfigFrame; no task waits forever to acquire configMutex.
C27_HandleConfigFrameReturns ==
  [][(pc = "listening" /\ Handled(ConfigurationFrame2) /\ last'.decoded)
       => (pc' # "blocked" /\ ~configMutex')]_vars

(***************************************************************************)
(* The configuration a data frame is decoded under (Spec).                 *)
(***************************************************************************)
\* C30: whenever DecodeDataFrame is invoked, which the intake does for a data
\* frame unless both configuration slots are empty, the Config-2 slot it
\* dereferences is non-empty.
C30_DecodedUnderConfiguration2 ==
  [][(Handled(DataFrame) /\ (CfgFrame2 # Nil \/ CfgFrame3 # Nil)) => CfgFrame2 # Nil]_vars

(***************************************************************************)
(* The listening period (SpecMain).                                        *)
(***************************************************************************)
\* a listener that is within its listening period: started, and period seconds
\* have not passed since (never, with period 0)
WithinPeriod(p) ==
  /\ listeners[p].state # "none"
  /\ (period = 0 \/ clock - listeners[p].since < period)

\* C25: a listener within its listening period still runs, and main has not
\* terminated while a listener is within its listening period.
C25_ListenersRunForPeriod ==
  \A p \in Ports :
    WithinPeriod(p) => (listeners[p].state = "listening" /\ main # "returned")

(***************************************************************************)
(* The configuration slot under several listeners (SpecPorts).             *)
(***************************************************************************)
\* C22: the configuration consulted when a data frame with id_code X is
\* decoded was written by the task that receives X's stream; a configuration
\* frame arriving on another listener never changes it.
C22_SlotWrittenByOwnListener ==
  [][(Handled(DataFrame) /\ CfgFrame2 # Nil)
       => PortOf(CfgFrame2.C37Header.IDCode) = PortOf(last'.id)]_vars

(***************************************************************************)
(* The accumulator under several listeners (SpecRace).                     *)
(***************************************************************************)
\* every call of ProcessDataFrame made so far has returned
AllReturned == \A p \in Ports : listeners[p].at = "idle"

\* C28: with listeners calling ProcessDataFrame concurrently no accumulator
\* update is lost: once the calls have returned the accumulator is in [0, 1)
\* and, the ratio here being 1/2 or 1, the number of frames emitted is the
\* whole part of calls * out / in, as for the calls made one after another.
C28_NoLostUpdate ==
  (pc = "racing" /\ AllReturned) =>
     /\ accumulator # BelowZero
     /\ ~Ge1(accumulator)
     /\ Cardinality(emitted) = (nFrames * OutputDataRate) \div InputDataRate

(***************************************************************************)
(* The hand-over to the TCP server (SpecServerFair).                       *)
(***************************************************************************)
\* C29: a task that hands a frame to sendFrame resumes within a bounded wait,
\* whether or not a TCP peer is consuming the channel: a frame sendFrame
\* offers on the channel while no client is connected is eventually taken or
\* given up without waiting for a client to connect.
NoClient == \A c \in Clients : conns[c].state # "open"

C29_DispatchReturns ==
  (frameChan # <<>> /\ NoClient) ~> (frameChan = <<>> \/ ~NoClient)

====
